---- MODULE Spec2Model ----
(***************************************************************************)
(* Model of src/primeFieldElement.py: the class PrimeFieldElement, an      *)
(* element a of the field F_p, with its constructor, the operators         *)
(* + - * / ** and inverse().  Exceptions are modelled as outcomes whose    *)
(* kind names the raise site:                                              *)
(*   InvalidResidue  ValueError of __init__ and of the int divisor check   *)
(*   FieldMismatch   TypeError of + - * /                                  *)
(*   DivisionByZero  ZeroDivisionError of /                                *)
(*   NotInvertible   ValueError of inverse()                               *)
(* Python integers are unbounded; the bounds keep every intermediate       *)
(* value far below the range of the model checker's integers.              *)
(***************************************************************************)
EXTENDS Integers, Sequences, FiniteSets, TLC

\* largest modulus passed to the constructor
MaxP == 7
\* largest magnitude of a bare integer operand
MaxK == 8

VARIABLES x, op, self, arg, res

vars == <<x, op, self, arg, res>>

----------------------------------------------------------------------------
\* Outcomes of a call: a returned element, or the exception raised.

Ok(a, p) == [a |-> a, p |-> p, kind |-> "ok"]

Err(kind) == [a |-> 0, p |-> 0, kind |-> kind]

NoOutcome == [a |-> 0, p |-> 0, kind |-> "none"]

\* The element an outcome carries.
Elem(r) == [a |-> r.a, p |-> r.p]

\* Record fields are written in one fixed order: a, p, then the rest.

\* The operand `other`: a bare int (isinstance(other, int)) or an element.
IntArg(k) == [a |-> 0, p |-> 0, k |-> k, isInt |-> TRUE]

ElemArg(e) == [a |-> e.a, p |-> e.p, k |-> 0, isInt |-> FALSE]

NoArg == [a |-> 0, p |-> 0, k |-> 0, isInt |-> FALSE]

----------------------------------------------------------------------------
\* Python integer arithmetic.

\* b // a : floor division
PyFloorDiv(b, a) == b \div a

\* C-style remainder, which takes the sign of the dividend
TruncMod(a, b) == IF a >= 0 THEN a - b * (a \div b) ELSE -((-a) - b * ((-a) \div b))

\* a % b : the remainder of floor division, in [0, b) for b > 0
PyMod(a, b) == a - b * PyFloorDiv(a, b)

RECURSIVE PyPow(_, _)
\* a ** n for n > 0
PyPow(a, n) == IF n = 1 THEN a ELSE a * PyPow(a, n - 1)

----------------------------------------------------------------------------
\* PrimeFieldElement.__init__

\* constructor that accepts a == p
NewOffByOne(a, p) == IF a > p \/ a < 0 THEN Err("InvalidResidue") ELSE Ok(a, p)

\* constructor that forgets the lower bound
NewNoLowerCheck(a, p) == IF a >= p THEN Err("InvalidResidue") ELSE Ok(a, p)

New(a, p) == IF a >= p \/ a < 0 THEN Err("InvalidResidue") ELSE Ok(a, p)

\* __add__
Add(s, o) ==
    IF o.isInt THEN New(PyMod(s.a + o.k, s.p), s.p)
    ELSE IF s.p # o.p THEN Err("FieldMismatch")
    ELSE New(PyMod(s.a + o.a, s.p), s.p)

\* __sub__
Sub(s, o) ==
    IF o.isInt THEN New(PyMod(s.a - o.k, s.p), s.p)
    ELSE IF s.p # o.p THEN Err("FieldMismatch")
    ELSE New(PyMod(s.a - o.a, s.p), s.p)

\* __mul__
Mul(s, o) ==
    IF o.isInt THEN New(PyMod(s.a * o.k, s.p), s.p)
    ELSE IF s.p # o.p THEN Err("FieldMismatch")
    ELSE New(PyMod(s.a * o.a, s.p), s.p)

RECURSIVE gcdExtended(_, _)
\* __gcdExtended: <<gcd, x, y>> with gcd = a*x + b*y
gcdExtended(a, b) ==
    IF a = 0 THEN <<b, 0, 1>>
    ELSE LET r  == gcdExtended(PyMod(b, a), a)
             x1 == r[2]
             y1 == r[3]
         IN  <<r[1], y1 - PyFloorDiv(b, a) * x1, x1>>

\* inverse that returns the other Bezout coefficient
InverseWrongCoeff(s) ==
    LET g == gcdExtended(s.a, s.p)
    IN  IF g[1] = s.p THEN Err("NotInvertible")
        ELSE IF g[1] = 1 THEN New(PyMod(g[3], s.p), s.p)
        ELSE Err("NotInvertible")

\* inverse that does not look at the gcd once it differs from p
InverseNoGcdCheck(s) ==
    LET g == gcdExtended(s.a, s.p)
    IN  IF g[1] = s.p THEN Err("NotInvertible")
        ELSE New(PyMod(g[2], s.p), s.p)

\* inverse
Inverse(s) ==
    LET g == gcdExtended(s.a, s.p)
    IN  IF g[1] = s.p THEN Err("NotInvertible")
        ELSE IF g[1] = 1 THEN New(PyMod(g[2], s.p), s.p)
        ELSE Err("NotInvertible")

\* element divisor: zero test made before the field test
TrueDivElemZeroFirst(s, o) ==
    IF o.a = 0 THEN Err("DivisionByZero")
    ELSE IF s.p # o.p THEN Err("FieldMismatch")
    ELSE LET inv == Inverse(Elem(o))
         IN  IF inv.kind # "ok" THEN inv ELSE Mul(s, ElemArg(Elem(inv)))

\* element divisor: no zero test
TrueDivElemNoZeroCheck(s, o) ==
    IF s.p # o.p THEN Err("FieldMismatch")
    ELSE LET inv == Inverse(Elem(o))
         IN  IF inv.kind # "ok" THEN inv ELSE Mul(s, ElemArg(Elem(inv)))

\* __truediv__ with an element divisor
TrueDivElem(s, o) ==
    IF s.p # o.p THEN Err("FieldMismatch")
    ELSE IF o.a = 0 THEN Err("DivisionByZero")
    ELSE LET inv == Inverse(Elem(o))
         IN  IF inv.kind # "ok" THEN inv ELSE Mul(s, ElemArg(Elem(inv)))

\* __truediv__: a bare int divisor is range-checked, wrapped and divided by
TrueDiv(s, o) ==
    IF o.isInt
    THEN IF o.k >= s.p \/ o.k < 0 THEN Err("InvalidResidue")
         ELSE LET w == New(o.k, s.p)
              IN  IF w.kind # "ok" THEN w ELSE TrueDivElem(s, ElemArg(Elem(w)))
    ELSE TrueDivElem(s, o)

\* power with 0 ** n taken to be 0 for every n
PowIntZeroBase(s, exp) ==
    IF s.a = 0 THEN New(0, s.p)
    ELSE IF exp = 0 THEN New(1, s.p)
    ELSE IF exp < 0
         THEN LET inv == Inverse(s)
              IN  IF inv.kind # "ok" THEN inv
                  ELSE New(PyMod(PyPow(inv.a, -exp), inv.p), inv.p)
    ELSE New(PyMod(PyPow(s.a, exp), s.p), s.p)

\* power that drops the sign of the exponent without inverting
PowIntNoInverse(s, exp) ==
    IF exp = 0 THEN New(1, s.p)
    ELSE IF exp < 0 THEN New(PyMod(PyPow(s.a, -exp), s.p), s.p)
    ELSE New(PyMod(PyPow(s.a, exp), s.p), s.p)

RECURSIVE PowInt(_, _)
\* __pow__ once the exponent is a plain integer
PowInt(s, exp) ==
    IF exp = 0 THEN New(1, s.p)
    ELSE IF exp < 0
         THEN LET inv == Inverse(s)
              IN  IF inv.kind # "ok" THEN inv ELSE PowInt(Elem(inv), -exp)
    ELSE New(PyMod(PyPow(s.a, exp), s.p), s.p)

\* power that checks the exponent's field like the other operators
PowChecked(s, o) ==
    IF o.isInt THEN PowInt(s, o.k)
    ELSE IF s.p # o.p THEN Err("FieldMismatch")
    ELSE PowInt(s, o.a)

\* __pow__: an element exponent is used through its residue
Pow(s, o) == PowInt(s, IF o.isInt THEN o.k ELSE o.a)

----------------------------------------------------------------------------
\* The state machine: x is the live element every call is made on; the
\* operand is a bare int or an element the constructor accepts, and an
\* element a call returns becomes x.

Ints == (-MaxK) .. MaxK

\* the elements PrimeFieldElement(a, p) returns for 1 <= p <= MaxP
Elements == {e \in [a : 0 .. (MaxP - 1), p : 1 .. MaxP] : New(e.a, e.p).kind = "ok"}

Operands == {ElemArg(e) : e \in Elements} \cup {IntArg(k) : k \in Ints}

\* __main__: a = PrimeFieldElement(a=5, p=7)
Init ==
    /\ x = [a |-> 5, p |-> 7]
    /\ op = "init"
    /\ self = [a |-> 5, p |-> 7]
    /\ arg = NoArg
    /\ res = NoOutcome

\* a call on x with operand o whose outcome is r
Call(name, o, r) ==
    /\ op' = name
    /\ self' = x
    /\ arg' = o
    /\ res' = r
    /\ x' = IF r.kind = "ok" THEN Elem(r) ELSE x

\* PrimeFieldElement(a, p); a and p are recorded in arg
Construct ==
    \E a \in (-1) .. (MaxP + 1), p \in (-1) .. MaxP :
        Call("construct", [a |-> a, p |-> p, k |-> 0, isInt |-> FALSE], New(a, p))

DoAdd == \E o \in Operands : Call("add", o, Add(x, o))

DoSub == \E o \in Operands : Call("sub", o, Sub(x, o))

DoMul == \E o \in Operands : Call("mul", o, Mul(x, o))

DoDiv == \E o \in Operands : Call("div", o, TrueDiv(x, o))

DoPow == \E o \in Operands : Call("pow", o, Pow(x, o))

DoInverse == Call("inverse", NoArg, Inverse(x))

Next ==
    \/ Construct
    \/ DoAdd
    \/ DoSub
    \/ DoMul
    \/ DoDiv
    \/ DoPow
    \/ DoInverse

Spec == Init /\ [][Next]_vars

----------------------------------------------------------------------------
\* Vocabulary of the properties.

\* r is congruent to v modulo p
Congruent(r, v, p) == (r - v) % p = 0

\* r is the residue of v: the unique member of [0, p) congruent to v
IsResidueOf(r, v, p) == r \in 0 .. (p - 1) /\ Congruent(r, v, p)

ValidElem(e) == 0 <= e.a /\ e.a < e.p /\ e.p >= 1

\* the integer an operand contributes
ArgValue(o) == IF o.isInt THEN o.k ELSE o.a

\* the integer result of the operation before reduction
OpValue(name, a, v) ==
    CASE name = "add" -> a + v
      [] name = "sub" -> a - v
      [] name = "mul" -> a * v

IsPrime(p) == p >= 2 /\ \A d \in 2 .. (p - 1) : p % d # 0

\* a and p have a common divisor other than 1
SharesFactor(a, p) == \E d \in 2 .. p : a % d = 0 /\ p % d = 0

Returned == res.kind = "ok"

\* the call raised and left x as it was
Failed(kind) == res.kind = kind /\ x = self

CrossField == ~arg.isInt /\ arg.p # self.p

ZeroDivisor == (arg.isInt /\ arg.k = 0) \/ (~arg.isInt /\ arg.a = 0)

SameOutcome(r1, r2) ==
    /\ (r1.kind = "ok") <=> (r2.kind = "ok")
    /\ r1.kind = "ok" => (r1.a = r2.a /\ r1.p = r2.p)

\* inverse applied to the outcome of a call
InverseOf(r) == IF r.kind = "ok" THEN Inverse(Elem(r)) ELSE r

----------------------------------------------------------------------------
\* C1: the constructor fails with InvalidResidue exactly when a < 0 or
\* a >= p; otherwise it succeeds and the element carries exactly the given
\* a and p, without reduction of a modulo p.
C1_ConstructContract ==
    op = "construct" =>
        /\ res.kind \in {"ok", "InvalidResidue"}
        /\ (res.kind = "InvalidResidue") <=> (arg.a < 0 \/ arg.a >= arg.p)
        /\ Returned => (res.a = arg.a /\ res.p = arg.p /\ x = Elem(res))

C1_Witness ==
    /\ op = "construct"
    /\ arg.p >= 1
    /\ arg.a >= arg.p
    /\ Failed("InvalidResidue")

\* C2: add, subtract and multiply with an element over the same p or any
\* bare integer return an element over p whose residue is the unique r in
\* [0, p) congruent to (x.a OP operand) modulo p; subtract never yields a
\* negative residue.
C2_BinaryResidue ==
    (op \in {"add", "sub", "mul"} /\ (arg.isInt \/ arg.p = self.p)) =>
        /\ Returned
        /\ res.p = self.p
        /\ IsResidueOf(res.a, OpValue(op, self.a, ArgValue(arg)), self.p)

C2_Witness ==
    /\ op = "sub"
    /\ arg.isInt
    /\ arg.k >= self.p
    /\ arg.k > self.a
    /\ Returned
    /\ res.a > 0

\* C3: after any sequence of calls every element that exists satisfies
\* 0 <= a < p and p >= 1, and an element returned by an operation has the
\* p of the element the operation was called on.
C3_ElementInvariant ==
    /\ ValidElem(x)
    /\ ValidElem(self)
    /\ Returned => ValidElem(Elem(res))
    /\ (Returned /\ op \in {"add", "sub", "mul", "div", "pow", "inverse"}) =>
           res.p = self.p

C3_Witness ==
    /\ op = "div"
    /\ Returned
    /\ ~arg.isInt
    /\ res.a # self.a
    /\ x = Elem(res)

\* C4: add, subtract, multiply and divide between two elements with
\* different p fail with FieldMismatch and return no element; for divide
\* also when the divisor's residue is 0.
C4_CrossFieldRejected ==
    (op \in {"add", "sub", "mul", "div"} /\ CrossField) => Failed("FieldMismatch")

C4_Witness ==
    /\ op = "div"
    /\ CrossField
    /\ arg.a = 0
    /\ Failed("FieldMismatch")

\* C5 as stated: power with an element exponent over a different modulus
\* fails with FieldMismatch.
C5_PowerChecksField ==
    (op = "pow" /\ CrossField) => res.kind = "FieldMismatch"

\* C5 amended: the modulus check is made by add, subtract, multiply and
\* divide but not by power: power with an element exponent over a different
\* modulus never fails with FieldMismatch, and for an exponent residue
\* n > 0 it returns the element over self.p with the residue of self.a ^ n.
C5_PowerIgnoresExponentField ==
    /\ (op \in {"add", "sub", "mul", "div"} /\ CrossField) =>
           res.kind = "FieldMismatch"
    /\ (op = "pow" /\ CrossField) =>
           /\ res.kind # "FieldMismatch"
           /\ arg.a > 0 =>
                  /\ Returned
                  /\ res.p = self.p
                  /\ IsResidueOf(res.a, PyPow(self.a, arg.a), self.p)

C5_Witness ==
    /\ op = "pow"
    /\ CrossField
    /\ arg.a > 1
    /\ self.a > 1
    /\ Returned
    /\ res.p = self.p

\* C6 as stated: divide fails with DivisionByZero for every element x and
\* every zero divisor, an element with residue 0 or the bare integer 0.
C6_DivideByAnyZero ==
    (op = "div" /\ ZeroDivisor) => Failed("DivisionByZero")

\* C6 amended: divide fails with DivisionByZero for every element x and
\* every zero divisor over x's modulus: an element with residue 0 and the
\* same p, or the bare integer 0.
C6_DivideBySameFieldZero ==
    (op = "div" /\ ZeroDivisor /\ ~CrossField) => Failed("DivisionByZero")

C6_Witness ==
    /\ op = "div"
    /\ arg.isInt
    /\ arg.k = 0
    /\ self.a # 0
    /\ Failed("DivisionByZero")

\* C7: for every prime p and every x over p with x.a # 0, inverse succeeds
\* and multiply(x, inverse(x)) is the element with residue 1 over p.
C7_InverseLaw ==
    (op = "inverse" /\ IsPrime(self.p) /\ self.a # 0) =>
        /\ Returned
        /\ Mul(self, ElemArg(Elem(res))) = Ok(1, self.p)

C7_Witness ==
    /\ op = "inverse"
    /\ self = [a |-> 3, p |-> 7]
    /\ res = Ok(5, 7)

\* C8 as stated: power(x, 0) returns the element with residue 1 over x's
\* modulus for every element the constructor accepts, and never fails.
C8_PowerZeroIsOne ==
    (op = "pow" /\ ArgValue(arg) = 0) => res = Ok(1, self.p)

\* C8 amended: power(x, 0) returns the element with residue 1 over x's
\* modulus for every element x whose modulus is at least 2, whatever x's
\* residue and whether the exponent is the integer 0 or an element with
\* residue 0; over the modulus 1 it fails with InvalidResidue.
C8_PowerZeroIsOneAboveOne ==
    (op = "pow" /\ ArgValue(arg) = 0) =>
        /\ self.p >= 2 => res = Ok(1, self.p)
        /\ self.p = 1 => Failed("InvalidResidue")

C8_Witness ==
    /\ op = "pow"
    /\ ~arg.isInt
    /\ arg.a = 0
    /\ self.a = 0
    /\ self.p >= 2
    /\ res = Ok(1, self.p)

\* C9: for every x with x.a # 0 and every n > 0, power(x, -n) and
\* inverse(power(x, n)) have the same outcome: the same residue and modulus
\* when they return, and both fail when either fails.
C9_NegativeExponent ==
    (op = "pow" /\ arg.isInt /\ arg.k < 0 /\ self.a # 0) =>
        SameOutcome(res, InverseOf(Pow(self, IntArg(-arg.k))))

C9_Witness ==
    /\ op = "pow"
    /\ arg.isInt
    /\ arg.k < -1
    /\ self.a > 1
    /\ Returned
    /\ res.a # self.a
    /\ res.a # 1

\* C10: for any modulus p >= 1 inverse fails with NotInvertible when
\* x.a = 0 (the only case with gcd = p) and when x.a shares a nontrivial
\* factor with p, and an element r it returns has 0 <= r.a < p and
\* x.a * r.a congruent to 1 modulo p.
C10_InverseSafe ==
    op = "inverse" =>
        /\ (gcdExtended(self.a, self.p)[1] = self.p) <=> (self.a = 0)
        /\ self.a = 0 => Failed("NotInvertible")
        /\ SharesFactor(self.a, self.p) => Failed("NotInvertible")
        /\ Returned =>
               /\ res.p = self.p
               /\ 0 <= res.a /\ res.a < self.p
               /\ Congruent(self.a * res.a, 1, self.p)

C10_Witness ==
    /\ op = "inverse"
    /\ self = [a |-> 4, p |-> 6]
    /\ Failed("NotInvertible")

====
